---- MODULE Spec2Model ----
(***************************************************************************)
(* Model of bin/index.js of create-domusjs-app: the interactive prompt     *)
(* flow, the registry check of the TypeScript version, the package-manager *)
(* detection, the emission of the project files and the install            *)
(* subprocess.  The script runs top to bottom; every step that talks to    *)
(* the operator, the registry, the host or the filesystem is one action,   *)
(* and the outcome of each such step is an input of the action.            *)
(***************************************************************************)
EXTENDS Integers, Sequences, FiniteSets, TLC

\* ------------------------------------------------------------------ bounds
\* most submissions of one text prompt that a run of the model follows
MaxSubmits == 2

\* ------------------------------------------------------------------ inputs
\* what the operator may type at the project-name prompt
NameInputs == {"", "my-app", "/tmp/my-app"}
\* the inputs above that are absolute paths
AbsoluteNames == {"/tmp/my-app"}
\* what the operator may type at the TypeScript-version prompt
VersionInputs == {"", "5.2.2", "4.9.5", "0.0.0-does-not-exist"}
\* how a child process started by execSync can end
ExecOutcomes == {"exit0", "exitNonZero", "spawnError", "timeout"}
\* the working directory of the process
cwd == "/home/user"

\* ------------------------------------------------------- pure definitions
Pass == [valid |-> TRUE, msg |-> ""]
Fail(m) == [valid |-> FALSE, msg |-> m]

\* execSync returns normally only when the child exits with status 0
execSyncReturns(outcome) == outcome = "exit0"

\* validate of the projectName prompt
validateProjectNameAlwaysPass(name) == Pass
validateProjectName(name) ==
    IF name # "" THEN Pass ELSE Fail("Project name is required")

\* the text prompt submits its initial value when the line is empty
submitted(value, initial) == IF value = "" THEN initial ELSE value

typescriptInitial == "5.2.2"

viewCommand(pkg, version) == "npm view " \o pkg \o "@" \o version \o " version"

\* versionExists: true when the npm view child returned, false when it threw
versionExistsFailOpen(pkg, version, outcome) == outcome # "exitNonZero"
versionExists(pkg, version, outcome) == execSyncReturns(outcome)

\* validate of the typescriptVersion prompt
validateTypescriptVersion(value, outcome) ==
    IF versionExists("typescript", value, outcome)
    THEN Pass ELSE Fail("Invalid TypeScript version")

\* path.resolve(process.cwd(), projectName) and path.join(projectDir, file)
resolve(base, name) == IF name \in AbsoluteNames THEN name ELSE base \o "/" \o name
join(dir, file) == dir \o "/" \o file

\* the candidates of detectPackageManager in the order they are probed
Candidates == <<"pnpm", "yarn", "bun">>
CandidateSet == {Candidates[i] : i \in DOMAIN Candidates}
probeCommand(cmd) == cmd \o " --version"
has(cmd, host) == cmd \in host

detectPackageManagerYarnFirst(host) ==
    IF has("yarn", host) THEN "yarn"
    ELSE IF has("pnpm", host) THEN "pnpm"
    ELSE IF has("bun", host) THEN "bun"
    ELSE "npm"
detectPackageManager(host) ==
    IF has("pnpm", host) THEN "pnpm"
    ELSE IF has("yarn", host) THEN "yarn"
    ELSE IF has("bun", host) THEN "bun"
    ELSE "npm"

\* the probe commands detectPackageManager runs, in order
detectProbes(host) ==
    IF has("pnpm", host) THEN <<probeCommand("pnpm")>>
    ELSE IF has("yarn", host) THEN <<probeCommand("pnpm"), probeCommand("yarn")>>
    ELSE <<probeCommand("pnpm"), probeCommand("yarn"), probeCommand("bun")>>

\* objects are key-ordered sequences of <<key, value>>
Keys(obj) == {obj[i][1] : i \in DOMAIN obj}
Get(obj, k) == (CHOOSE i \in DOMAIN obj : obj[i][1] = k)
ValueOf(obj, k) == obj[Get(obj, k)][2]
\* ...(cond && block)
spread(cond, block) == IF cond THEN block ELSE <<>>

scripts(eslint) ==
    << <<"build", "tsc">>,
       <<"dev", "ts-node-dev --respawn --transpile-only index.ts">> >>
    \o spread(eslint, << <<"lint", "eslint . --ext .ts">> >>)
    \o << <<"test", "echo \"Error: no test specified\" && exit 1">> >>

devDependenciesPartial(tsVersion, eslint) ==
    << <<"@types/express", "^5.0.3">>,
       <<"@types/node", "^22.15.3">>,
       <<"ts-node", "^10.9.2">>,
       <<"ts-node-dev", "^2.0.0">>,
       <<"typescript", tsVersion>>,
       <<"eslint", "^9.29.0">> >>
    \o spread(eslint, << <<"@typescript-eslint/parser", "^8.34.1">>,
                         <<"@typescript-eslint/eslint-plugin", "^8.34.1">> >>)
devDependencies(tsVersion, eslint) ==
    << <<"@types/express", "^5.0.3">>,
       <<"@types/node", "^22.15.3">>,
       <<"ts-node", "^10.9.2">>,
       <<"ts-node-dev", "^2.0.0">>,
       <<"typescript", tsVersion>> >>
    \o spread(eslint, << <<"eslint", "^9.29.0">>,
                         <<"@typescript-eslint/parser", "^8.34.1">>,
                         <<"@typescript-eslint/eslint-plugin", "^8.34.1">> >>)

dependencies ==
    << <<"@domusjs/core", "^0.1.0">>,
       <<"@domusjs/infrastructure", "^0.1.0">>,
       <<"express", "^5.1.0">>,
       <<"reflect-metadata", "^0.2.2">>,
       <<"tsyringe", "^4.9.1">> >>

packageJsonInitialVersion(name, tsVersion, eslint) ==
    [name |-> name, description |-> "", version |-> "0.1.0", main |-> "index.js",
     scripts |-> scripts(eslint), keywords |-> <<>>, author |-> "",
     license |-> "MIT", dependencies |-> dependencies,
     devDependencies |-> devDependencies(typescriptInitial, eslint)]
packageJson(name, tsVersion, eslint) ==
    [name |-> name, description |-> "", version |-> "0.1.0", main |-> "index.js",
     scripts |-> scripts(eslint), keywords |-> <<>>, author |-> "",
     license |-> "MIT", dependencies |-> dependencies,
     devDependencies |-> devDependencies(tsVersion, eslint)]

tsconfigJson ==
    [compilerOptions |->
       << <<"target", "es2016">>, <<"lib", <<"es2022">> >>,
          <<"experimentalDecorators", TRUE>>, <<"emitDecoratorMetadata", TRUE>>,
          <<"module", "commonjs">>, <<"resolveJsonModule", TRUE>>,
          <<"outDir", "dist">>, <<"esModuleInterop", TRUE>>,
          <<"forceConsistentCasingInFileNames", TRUE>>, <<"strict", TRUE>>,
          <<"skipLibCheck", TRUE>> >>]

\* the fixed texts of the remaining files, named by what they are
eslintConfigText == "eslint.config.mjs: flat config for **/*.ts with @typescript-eslint"
indexTsText == "index.ts: registerDependencies, bootstrap, listen on PORT || 3000"
serverTsText == "server.ts: createServer with express.json, routes, errorHandler"
routesTsText == "routes.ts: Router with GET / -> Hello World"

\* if (useEslint) write('eslint.config.mjs', ...)
emitsEslintConfigNever(eslint) == FALSE
emitsEslintConfig(eslint) == eslint

\* the files the script writes, in the order of its write calls
emitted(eslint) ==
    <<"package.json", "tsconfig.json">>
    \o (IF eslint THEN <<"eslint.config.mjs">> ELSE <<>>)
    \o <<"index.ts", "server.ts", "routes.ts">>

installCommandNpm(pm) == "npm install"
installCommand(pm) == pm \o " install"

\* how the process ends: process.exit(1) in onCancel, an exception that
\* reaches the top level of the module, or the end of the script
exitStatusCancelZero(how) ==
    CASE how = "cancel" -> 0
      [] how = "uncaught" -> 1
      [] how = "end" -> 0
exitStatus(how) ==
    CASE how = "cancel" -> 1
      [] how = "uncaught" -> 1
      [] how = "end" -> 0

\* exit status after execSync(`${packageManager} install`) returned or threw
afterInstallIgnoreFailure(ok) == "end"
afterInstall(ok) == IF ok THEN "end" ELSE "uncaught"

\* where control goes after a filesystem call returned or threw
afterFsCallSwallow(ok, next) == next
afterFsCall(ok, next) == IF ok THEN next ELSE "crashed"

\* ------------------------------------------------------------------- state
VARIABLES
    pc,              \* position of the script
    response,        \* the answers collected by prompts so far
    promptError,     \* validation message shown at the current prompt
    nameSubmits,     \* submissions of the projectName prompt
    versionSubmits,  \* submissions of the typescriptVersion prompt
    queries,         \* registry queries issued by versionExists
    validating,      \* validate of typescriptVersion returned its pending
                     \* promise and the awaited result is not yet delivered
    host,            \* the candidates whose --version probe succeeds
    projectDir,      \* resolve(cwd, projectName), "" until computed
    dirs,            \* directories created by mkdirSync
    files,           \* path -> content of the files written
    written,         \* relative names of the files written, in order
    probes,          \* probe commands run by detectPackageManager
    packageManager,  \* result of detectPackageManager, "" until it ran
    installs,        \* install subprocesses launched
    failure,         \* the call that threw, "" while none has
    exitCode         \* exit status of the process, -1 while it runs

vars == <<pc, response, promptError, nameSubmits, versionSubmits, queries,
          validating, host,
          projectDir, dirs, files, written, probes, packageManager, installs,
          failure, exitCode>>

PromptFields == <<"projectName", "typescriptVersion", "useEslint">>
PromptSet == {PromptFields[i] : i \in DOMAIN PromptFields}
FieldIndex(f) == CHOOSE i \in DOMAIN PromptFields : PromptFields[i] = f

EmptyMap == [x \in {} |-> ""]
Answered(f) == f \in DOMAIN response

Init ==
    /\ pc = "projectName"
    /\ response = EmptyMap
    /\ promptError = ""
    /\ nameSubmits = 0
    /\ versionSubmits = 0
    /\ queries = <<>>
    /\ validating = FALSE
    /\ host \in SUBSET CandidateSet
    /\ projectDir = ""
    /\ dirs = {}
    /\ files = EmptyMap
    /\ written = <<>>
    /\ probes = <<>>
    /\ packageManager = ""
    /\ installs = <<>>
    /\ failure = ""
    /\ exitCode = -1

\* ----------------------------------------------------------------- actions
\* the operator submits a line at the projectName prompt
SubmitProjectName ==
    /\ UNCHANGED validating
    /\ pc = "projectName"
    /\ nameSubmits < MaxSubmits
    /\ \E name \in NameInputs :
         LET v == validateProjectName(name) IN
         /\ nameSubmits' = nameSubmits + 1
         /\ promptError' = v.msg
         /\ IF v.valid
            THEN /\ response' = response @@ ("projectName" :> name)
                 /\ pc' = "typescriptVersion"
            ELSE UNCHANGED <<response, pc>>
    /\ UNCHANGED <<versionSubmits, queries, host, projectDir, dirs, files, written,
                   probes, packageManager, installs, failure, exitCode>>

\* the operator submits a line at the typescriptVersion prompt; the async
\* validate runs versionExists, which runs one npm view child to its end, and
\* then awaits: it hands a pending promise back to the prompt
SubmitTypescriptVersion ==
    /\ pc = "typescriptVersion"
    /\ ~ validating
    /\ versionSubmits < MaxSubmits
    /\ \E line \in VersionInputs, outcome \in ExecOutcomes :
         LET value == submitted(line, typescriptInitial) IN
         /\ versionSubmits' = versionSubmits + 1
         /\ queries' = Append(queries, [pkg |-> "typescript", version |-> value,
                                        cmd |-> viewCommand("typescript", value),
                                        outcome |-> outcome,
                                        result |-> versionExists("typescript", value, outcome)])
    /\ validating' = TRUE
    /\ UNCHANGED <<pc, response, promptError, nameSubmits, host, projectDir, dirs,
                   files, written, probes, packageManager, installs, failure,
                   exitCode>>

\* the awaited result of versionExists is delivered: validate resolves to
\* true or to the message, and the prompt accepts the line or shows the error
DeliverValidation ==
    /\ pc = "typescriptVersion"
    /\ validating
    /\ LET q == queries[Len(queries)]
           v == validateTypescriptVersion(q.version, q.outcome) IN
         /\ promptError' = v.msg
         /\ IF v.valid
            THEN /\ response' = response @@ ("typescriptVersion" :> q.version)
                 /\ pc' = "useEslint"
            ELSE UNCHANGED <<response, pc>>
    /\ validating' = FALSE
    /\ UNCHANGED <<nameSubmits, versionSubmits, queries, host, projectDir, dirs,
                   files, written, probes, packageManager, installs, failure,
                   exitCode>>

\* the operator answers the confirm prompt; prompts resolves
AnswerUseEslint ==
    /\ UNCHANGED validating
    /\ pc = "useEslint"
    /\ \E b \in BOOLEAN :
         /\ response' = response @@ ("useEslint" :> b)
    /\ pc' = "mkdir"
    /\ promptError' = ""
    /\ UNCHANGED <<nameSubmits, versionSubmits, queries, host, projectDir, dirs,
                   files, written, probes, packageManager, installs, failure,
                   exitCode>>

\* the operator cancels at the current prompt: onCancel, process.exit(1)
Cancel ==
    /\ UNCHANGED validating
    /\ pc \in PromptSet
    /\ pc' = "cancelled"
    /\ exitCode' = exitStatus("cancel")
    /\ UNCHANGED <<response, promptError, nameSubmits, versionSubmits, queries,
                   host, projectDir, dirs, files, written, probes, packageManager,
                   installs, failure>>

\* projectDir = resolve(cwd, projectName); mkdirSync(projectDir, recursive)
Mkdir ==
    /\ UNCHANGED validating
    /\ pc = "mkdir"
    /\ projectDir' = resolve(cwd, response["projectName"])
    /\ \E ok \in BOOLEAN :
         /\ pc' = afterFsCall(ok, "detect")
         /\ dirs' = IF ok THEN dirs \cup {projectDir'} ELSE dirs
         /\ failure' = IF ok THEN failure ELSE "mkdir"
         /\ exitCode' = IF pc' = "crashed" THEN exitStatus("uncaught") ELSE exitCode
    /\ UNCHANGED <<response, promptError, nameSubmits, versionSubmits, queries,
                   host, files, written, probes, packageManager, installs>>

\* const packageManager = detectPackageManager()
Detect ==
    /\ UNCHANGED validating
    /\ pc = "detect"
    /\ packageManager' = detectPackageManager(host)
    /\ probes' = detectProbes(host)
    /\ pc' = "package.json"
    /\ UNCHANGED <<response, promptError, nameSubmits, versionSubmits, queries,
                   host, projectDir, dirs, files, written, installs, failure,
                   exitCode>>

\* how writeFileSync can end: it opens the file (creating or truncating it)
\* and then writes the content; either call can throw
WriteOutcomes == {"ok", "openThrows", "writeThrows"}
\* what a file holds when the write threw after the open: nothing, or a
\* proper prefix of the content
truncated(file) == {"", "prefix of " \o file}

\* write(file, content): writeFileSync(join(projectDir, file), content)
write(file, content, next) ==
    /\ pc = file
    /\ UNCHANGED validating
    /\ \E outcome \in WriteOutcomes :
         LET ok == outcome = "ok"
             path == join(projectDir, file) IN
         /\ pc' = afterFsCall(ok, next)
         /\ \E onDisk \in (IF ok THEN {content} ELSE truncated(file)) :
              files' = IF outcome = "openThrows"
                       THEN files
                       ELSE [p \in DOMAIN files \cup {path} |->
                               IF p = path THEN onDisk ELSE files[p]]
         /\ written' = IF ok THEN Append(written, file) ELSE written
         /\ failure' = IF ok THEN failure ELSE file
         /\ exitCode' = IF pc' = "crashed" THEN exitStatus("uncaught") ELSE exitCode
    /\ UNCHANGED <<response, promptError, nameSubmits, versionSubmits, queries,
                   host, projectDir, dirs, probes, packageManager, installs>>

WritePackageJson ==
    /\ pc = "package.json"
    /\ write("package.json",
             packageJson(response["projectName"], response["typescriptVersion"],
                         response["useEslint"]),
             "tsconfig.json")

WriteTsconfig == write("tsconfig.json", tsconfigJson, "eslint.config.mjs")

WriteEslintConfig ==
    /\ pc = "eslint.config.mjs"
    /\ IF emitsEslintConfig(response["useEslint"])
       THEN write("eslint.config.mjs", eslintConfigText, "index.ts")
       ELSE /\ pc' = "index.ts"
            /\ UNCHANGED validating
            /\ UNCHANGED <<response, promptError, nameSubmits, versionSubmits,
                           queries, host, projectDir, dirs, files, written, probes,
                           packageManager, installs, failure, exitCode>>

WriteIndexTs == write("index.ts", indexTsText, "server.ts")
WriteServerTs == write("server.ts", serverTsText, "routes.ts")
WriteRoutesTs == write("routes.ts", routesTsText, "install")

\* execSync(`${packageManager} install`, { cwd: projectDir }), then the end
Install ==
    /\ UNCHANGED validating
    /\ pc = "install"
    /\ \E outcome \in ExecOutcomes :
         LET ok == execSyncReturns(outcome)
             how == afterInstall(ok) IN
         /\ installs' = Append(installs, [cmd |-> installCommand(packageManager),
                                          cwd |-> projectDir, outcome |-> outcome])
         /\ pc' = IF how = "end" THEN "done" ELSE "crashed"
         /\ failure' = IF ok THEN failure ELSE "install"
         /\ exitCode' = exitStatus(how)
    /\ UNCHANGED <<response, promptError, nameSubmits, versionSubmits, queries,
                   host, projectDir, dirs, files, written, probes, packageManager>>

Next ==
    \/ SubmitProjectName
    \/ SubmitTypescriptVersion
    \/ DeliverValidation
    \/ AnswerUseEslint
    \/ Cancel
    \/ Mkdir
    \/ Detect
    \/ WritePackageJson
    \/ WriteTsconfig
    \/ WriteEslintConfig
    \/ WriteIndexTs
    \/ WriteServerTs
    \/ WriteRoutesTs
    \/ Install

Spec == Init /\ [][Next]_vars

\* -------------------------------------------------- definitions for claims
Last(q) == q[Len(q)]
Terminated == pc \in {"done", "crashed", "cancelled"}
AllAnswered == DOMAIN response = PromptSet
ManifestPath == join(projectDir, "package.json")
LintPath == join(projectDir, "eslint.config.mjs")
\* the write of package.json returned
ManifestWritten == \E i \in DOMAIN written : written[i] = "package.json"
Manifest == files[ManifestPath]
EslintKeys == {"eslint", "@typescript-eslint/parser", "@typescript-eslint/eslint-plugin"}
BaseScripts == {"build", "dev", "test"}
BaseDevDependencies ==
    {"@types/express", "@types/node", "ts-node", "ts-node-dev", "typescript"}
BaseDependencies ==
    {"@domusjs/core", "@domusjs/infrastructure", "express", "reflect-metadata",
     "tsyringe"}
FileNames ==
    {"package.json", "tsconfig.json", "eslint.config.mjs", "index.ts", "server.ts",
     "routes.ts"}
\* the content the script gives to a file
contentOf(file) ==
    CASE file = "package.json" ->
            packageJson(response["projectName"], response["typescriptVersion"],
                        response["useEslint"])
      [] file = "tsconfig.json" -> tsconfigJson
      [] file = "eslint.config.mjs" -> eslintConfigText
      [] file = "index.ts" -> indexTsText
      [] file = "server.ts" -> serverTsText
      [] file = "routes.ts" -> routesTsText
\* the files on disk are exactly those of the sequence names, with their content
OnDisk(names) ==
    /\ DOMAIN files = {join(projectDir, names[i]) : i \in DOMAIN names}
    /\ \A i \in DOMAIN names : files[join(projectDir, names[i])] = contentOf(names[i])
\* the files of the sequence names are on disk with their content
Kept(names) ==
    \A i \in DOMAIN names :
        /\ join(projectDir, names[i]) \in DOMAIN files
        /\ files[join(projectDir, names[i])] = contentOf(names[i])
IsPrefix(a, b) == Len(a) <= Len(b) /\ \A i \in DOMAIN a : a[i] = b[i]
EmissionComplete == AllAnswered /\ written = emitted(response["useEslint"])
\* the script is past its last write call
WritesFinished == pc \in {"install", "done"} \/ failure = "install"
NoFilesystemEffect == dirs = {} /\ files = EmptyMap /\ written = <<>>

\* C1 (as stated): when the prompts were answered and the directory and every
\* file were written, the exit code is 0 whether the install subprocess
\* succeeds or fails, and the files stay on disk.
C1_ExitZeroWhateverInstall ==
    (installs # <<>> /\ Terminated) =>
        /\ exitCode = 0
        /\ OnDisk(emitted(response["useEslint"]))

\* C1 (amended): after the install subprocess ran, the exit code is 0 exactly
\* when the subprocess exited with status 0 and 1 when it failed (the
\* exception of execSync is not caught); in both cases the directory and the
\* files written before stay on disk.
C1_InstallFailureIsFatal ==
    installs # <<>> =>
        /\ Terminated
        /\ (installs[1].outcome = "exit0") => (exitCode = 0 /\ pc = "done")
        /\ (installs[1].outcome # "exit0") =>
              (exitCode = 1 /\ pc = "crashed" /\ failure = "install")
        /\ projectDir \in dirs
        /\ OnDisk(emitted(response["useEslint"]))

C1_Witness ==
    /\ installs # <<>>
    /\ installs[1].outcome = "exitNonZero"
    /\ exitCode = 1
    /\ Cardinality(DOMAIN files) >= 5

\* C2: a cancellation at any of the three prompts ends the process with exit
\* code 1 before the directory is created, before any file is written, and
\* before the package-manager probes and the install subprocess run; nothing
\* happens after the process has ended.
C2_CancelAborts ==
    /\ pc = "cancelled" =>
          /\ exitCode = 1
          /\ NoFilesystemEffect
          /\ projectDir = ""
          /\ probes = <<>>
          /\ packageManager = ""
          /\ installs = <<>>
    /\ (exitCode # -1) => ~ ENABLED Next

C2_Witness ==
    /\ pc = "cancelled"
    /\ Answered("typescriptVersion")
    /\ ~ Answered("useEslint")
    /\ exitCode = 1

\* C3: a submission that fails validation leaves the flow at the same prompt,
\* with no answer recorded, no exit and no later stage started; the flow
\* leaves the name prompt for the version prompt only with a non-empty name,
\* and the version prompt for the confirm prompt only with a version whose
\* registry query succeeded.
C3_RepromptOnInvalid ==
    [][ /\ (nameSubmits' > nameSubmits /\ promptError' # "") =>
              (pc' = pc /\ response' = response /\ exitCode' = -1)
        /\ (validating /\ ~ validating' /\ promptError' # "") =>
              (pc' = pc /\ response' = response /\ exitCode' = -1)
        /\ (versionSubmits' > versionSubmits) =>
              (pc' = pc /\ response' = response /\ exitCode' = -1)
        /\ (pc = "projectName" /\ pc' # pc) =>
              \/ pc' = "cancelled"
              \/ /\ pc' = "typescriptVersion"
                 /\ nameSubmits' = nameSubmits + 1
                 /\ response'["projectName"] # ""
        /\ (pc = "typescriptVersion" /\ pc' # pc) =>
              \/ pc' = "cancelled"
              \/ /\ pc' = "useEslint"
                 /\ validating /\ ~ validating'
                 /\ queries' = queries
                 /\ Last(queries').outcome = "exit0"
                 /\ Last(queries').version = response'["typescriptVersion"]
        /\ (pc' \in PromptSet) => (NoFilesystemEffect' /\ installs' = <<>>)
      ]_vars

C3_Witness ==
    /\ pc = "typescriptVersion"
    /\ promptError = "Invalid TypeScript version"
    /\ ~ validating
    /\ queries # <<>>
    /\ Last(queries).version = "0.0.0-does-not-exist"
    /\ ~ Answered("typescriptVersion")
    /\ exitCode = -1

\* C4: every submission of the version prompt issues exactly one registry
\* query; versionExists is true exactly when the query's child exited with
\* status 0, and a failed query of any kind gives false, keeps the flow at
\* the prompt, and never ends the process.
C4_FailClosedNoRetry ==
    /\ Len(queries) = versionSubmits
    /\ \A i \in DOMAIN queries :
          /\ queries[i].result = (queries[i].outcome = "exit0")
          /\ queries[i].cmd = "npm view typescript@" \o queries[i].version \o " version"
          /\ (queries[i].outcome # "exit0") => i < Len(queries) \/ pc \in {"typescriptVersion", "cancelled"}
    /\ Answered("typescriptVersion") =>
          (queries # <<>> /\ Last(queries).outcome = "exit0" /\ ~ validating)
    /\ (queries # <<>> /\ Last(queries).outcome = "exit0"
          /\ ~ Answered("typescriptVersion")) => validating
    /\ validating => pc \in {"typescriptVersion", "cancelled"}
    /\ (pc = "typescriptVersion") => (exitCode = -1 /\ failure = "")
    /\ (pc = "cancelled") => failure = ""

C4_Witness ==
    /\ Len(queries) = 2
    /\ queries[1].outcome = "timeout"
    /\ ~ queries[1].result
    /\ queries[2].outcome = "exit0"
    /\ pc = "useEslint"

\* C5: detectPackageManager returns the first of pnpm, yarn, bun whose probe
\* succeeds and npm when none does; it probes in that order, stops at the
\* first success, and never probes npm.
FirstPresent == CHOOSE i \in DOMAIN Candidates :
                   /\ Candidates[i] \in host
                   /\ \A j \in 1..(i - 1) : Candidates[j] \notin host
C5_DetectorPriority ==
    packageManager # "" =>
        /\ IF host \cap CandidateSet = {}
           THEN /\ packageManager = "npm"
                /\ probes = <<"pnpm --version", "yarn --version", "bun --version">>
           ELSE /\ packageManager = Candidates[FirstPresent]
                /\ Len(probes) = FirstPresent
        /\ \A i \in DOMAIN probes : probes[i] = Candidates[i] \o " --version"

C5_Witness ==
    /\ packageManager = "yarn"
    /\ host = {"yarn", "bun"}
    /\ probes = <<"pnpm --version", "yarn --version">>

\* C6: after a complete emission the lint configuration file, the lint script
\* and the three ESLint devDependencies are all present when useEslint is
\* true and all absent when it is false; the base scripts, devDependencies
\* and dependencies are present in both cases.
C6_WholesaleEslint ==
    WritesFinished =>
        LET e == response["useEslint"] IN
        /\ EmissionComplete
        /\ ManifestWritten
        /\ (LintPath \in DOMAIN files) = e
        /\ ("lint" \in Keys(Manifest.scripts)) = e
        /\ \A k \in EslintKeys : (k \in Keys(Manifest.devDependencies)) = e
        /\ Keys(Manifest.scripts) \ {"lint"} = BaseScripts
        /\ Keys(Manifest.devDependencies) \ EslintKeys = BaseDevDependencies
        /\ Keys(Manifest.dependencies) = BaseDependencies

C6_Witness ==
    /\ pc = "done"
    /\ response["useEslint"] = FALSE
    /\ ManifestWritten
    /\ LintPath \notin DOMAIN files
    /\ Keys(Manifest.devDependencies) = BaseDevDependencies

\* the scenario of C7 after all of its writes succeeded
C7_Scenario ==
    /\ WritesFinished
    /\ response["projectName"] = "my-app"
    /\ response["typescriptVersion"] = "5.2.2"
    /\ response["useEslint"] = TRUE

\* C7 (as stated): in the scenario my-app / 5.2.2 / ESLint, exactly five files
\* are written under my-app/, among them the lint configuration and a
\* manifest with a lint script.
C7_FiveArtifacts ==
    C7_Scenario =>
        /\ Cardinality(DOMAIN files) = 5
        /\ LintPath \in DOMAIN files
        /\ "lint" \in Keys(Manifest.scripts)

\* C7 (amended): in that scenario exactly six files are written under
\* my-app/: package.json, tsconfig.json, eslint.config.mjs, index.ts,
\* server.ts and routes.ts; the manifest has a lint script.
C7_SixArtifacts ==
    C7_Scenario =>
        /\ Cardinality(DOMAIN files) = 6
        /\ Len(written) = 6
        /\ DOMAIN files = {"/home/user/my-app/" \o f : f \in FileNames}
        /\ "lint" \in Keys(Manifest.scripts)

C7_Witness ==
    /\ C7_Scenario
    /\ pc = "done"
    /\ "/home/user/my-app/eslint.config.mjs" \in DOMAIN files

\* C8: when mkdirSync or a write throws, the process ends there with a
\* non-zero exit code; no later file is written, the install subprocess is
\* not launched, and the directory and the files written before the failure
\* are still on disk with their content.  Of the file whose write threw,
\* nothing or a truncated file is left.
C8_FsFailureFatal ==
    (failure \in FileNames \cup {"mkdir"}) =>
        /\ pc = "crashed"
        /\ exitCode = 1
        /\ installs = <<>>
        /\ IF failure = "mkdir"
           THEN NoFilesystemEffect /\ probes = <<>>
           ELSE /\ projectDir \in dirs
                /\ IsPrefix(written, emitted(response["useEslint"]))
                /\ Len(written) < Len(emitted(response["useEslint"]))
                /\ emitted(response["useEslint"])[Len(written) + 1] = failure
                /\ Kept(written)
                /\ DOMAIN files \subseteq
                      {join(projectDir, written[i]) : i \in DOMAIN written}
                      \cup {join(projectDir, failure)}
                /\ \A i \in (Len(written) + 2)..Len(emitted(response["useEslint"])) :
                      join(projectDir, emitted(response["useEslint"])[i])
                         \notin DOMAIN files
                /\ (join(projectDir, failure) \in DOMAIN files) =>
                      files[join(projectDir, failure)] \in {"", "prefix of " \o failure}

C8_Witness ==
    /\ failure = "index.ts"
    /\ pc = "crashed"
    /\ written = <<"package.json", "tsconfig.json", "eslint.config.mjs">>
    /\ Cardinality(DOMAIN files) = 4
    /\ files["/home/user/my-app/index.ts"] = ""
    /\ files["/home/user/my-app/tsconfig.json"] = tsconfigJson

\* C9: the install subprocess is launched at most once, after every file of
\* the run is on disk, in the created directory, as `<pm> install` for the
\* detector's result (npm install when no candidate is present); once a file
\* has been written the run is past the prompts and cannot be cancelled.
C9_InstallLastOnce ==
    /\ Len(installs) <= 1
    /\ installs # <<>> =>
          /\ EmissionComplete
          /\ OnDisk(emitted(response["useEslint"]))
          /\ installs[1].cwd = projectDir
          /\ projectDir \in dirs
          /\ packageManager \in CandidateSet \cup {"npm"}
          /\ installs[1].cmd = packageManager \o " install"
          /\ (host = {}) => installs[1].cmd = "npm install"
          /\ (host # {}) => installs[1].cmd # "npm install"
    /\ (written # <<>> \/ dirs # {}) => pc \notin PromptSet \cup {"cancelled"}

C9_Witness ==
    /\ Len(installs) = 1
    /\ host = {}
    /\ installs[1].cmd = "npm install"
    /\ installs[1].cwd = "/home/user/my-app"
    /\ Len(written) = 5

\* C10: the manifest's typescript devDependency is the version of the latest
\* registry query that succeeded, its name is the accepted non-empty project
\* name, the directory is that name resolved against the working directory,
\* nothing touches the filesystem before the three prompts are answered, and
\* the answers do not change once they are complete.
LastTrueQuery == CHOOSE i \in DOMAIN queries :
                    /\ queries[i].result
                    /\ \A j \in (i + 1)..Len(queries) : ~ queries[j].result
C10_State ==
    /\ ManifestWritten =>
          /\ \E i \in DOMAIN queries : queries[i].outcome = "exit0"
          /\ ValueOf(Manifest.devDependencies, "typescript") = queries[LastTrueQuery].version
          /\ queries[LastTrueQuery].outcome = "exit0"
          /\ Manifest.name = response["projectName"]
          /\ Manifest.name # ""
    /\ (projectDir # "") =>
          /\ AllAnswered
          /\ response["projectName"] # ""
          /\ projectDir = IF response["projectName"] = "/tmp/my-app"
                          THEN "/tmp/my-app"
                          ELSE "/home/user/" \o response["projectName"]
          /\ dirs \subseteq {projectDir}
    /\ (~ AllAnswered) => (NoFilesystemEffect /\ projectDir = "")
C10_OnlyValidatedInput ==
    /\ []C10_State
    /\ [][AllAnswered => response' = response]_vars

C10_Witness ==
    /\ ManifestWritten
    /\ ValueOf(Manifest.devDependencies, "typescript") = "4.9.5"
    /\ Len(queries) = 2
    /\ queries[1].version = "5.2.2"
    /\ ~ queries[1].result
    /\ Manifest.name = "/tmp/my-app"

====
